---- MODULE Spec2Model ----
(***************************************************************************)
(* Model of demo.core.text_processor.SimpleTextProcessor: an instance      *)
(* holding one text, and its four read operations preprocess, tokenize,    *)
(* count_words and word_frequency (specification Spec); of the command     *)
(* line of demo.cli that reads a text and prints one of the two counts     *)
(* (specification SpecCli); and of scripts/update_project_name.py, which   *)
(* renames the template project (specification SpecRename).                *)
(*                                                                         *)
(* A Python str is modelled as a sequence of one-character strings, a list *)
(* of str as a sequence of such sequences.  A Python value passed where a  *)
(* str is expected is a record [type, val]: type is type(x).__name__ and   *)
(* val the characters when it is a str.                                    *)
(***************************************************************************)
EXTENDS Integers, Sequences, FiniteSets

\* ------------------------------------------------------------------ bounds
MaxLen == 4        \* longest input text
MaxWordLen == 2    \* longest query word
MaxCliLen == 2     \* longest text given to, or read from a file by, the command line
MaxNameLen == 2    \* longest --old-name and --new-name
MaxContentLen == 2 \* longest content of a target file

\* ---------------------------------------------------------------- alphabet
TAB == "\t"
SPACE == " "
NEWLINE == "\n"

\* the characters for which str.isspace() and the regex class \s hold
Whitespace == {SPACE, TAB, NEWLINE}

Letters == {"a", "A"}

Chars == Letters \cup Whitespace

RECURSIVE StrUpTo(_)
StrUpTo(n) ==
  IF n = 0 THEN {<<>>}
  ELSE LET S == StrUpTo(n - 1)
       IN  S \cup {Append(s, c) : s \in {x \in S : Len(x) = n - 1}, c \in Chars}

Texts == StrUpTo(MaxLen)

\* ------------------------------------------------------------ python values
PyStr(s) == [type |-> "str", val |-> s]
PyNone == [type |-> "NoneType", val |-> <<>>]
PyInt == [type |-> "int", val |-> <<>>]

isinstance_str(x) == x.type = "str"

\* arguments given to word_frequency: words over a letter and a separator,
\* and two values that are not a str
WordChars == {"a", SPACE}

Words == {PyStr(s) : s \in {x \in StrUpTo(MaxWordLen) : \A i \in DOMAIN x : x[i] \in WordChars}}
           \cup {PyNone, PyInt}

\* results of a call
NoExc == [type |-> "none", msg |-> ""]
Returned(k, v) == [kind |-> k, val |-> v, exc |-> NoExc]
Raised(t, m) == [kind |-> "raise", val |-> <<>>, exc |-> [type |-> t, msg |-> m]]
NoResult == [kind |-> "none", val |-> <<>>, exc |-> NoExc]

\* ------------------------------------------------------------- str methods
\* str.lstrip()
RECURSIVE lstrip(_)
lstrip(s) ==
  IF s = <<>> THEN <<>>
  ELSE IF Head(s) \in Whitespace THEN lstrip(Tail(s)) ELSE s

\* str.rstrip()
RECURSIVE rstrip(_)
rstrip(s) ==
  IF s = <<>> THEN <<>>
  ELSE IF s[Len(s)] \in Whitespace THEN rstrip(SubSeq(s, 1, Len(s) - 1)) ELSE s

\* a strip that removes at most one character from each end
strip_once(s) ==
  LET l == IF s # <<>> /\ Head(s) \in Whitespace THEN Tail(s) ELSE s
  IN  IF l # <<>> /\ l[Len(l)] \in Whitespace THEN SubSeq(l, 1, Len(l) - 1) ELSE l

\* str.strip()
strip(s) == rstrip(lstrip(s))

\* the longest prefix of s made of characters of set C (a greedy C+ match)
RECURSIVE MatchRun(_, _)
MatchRun(s, C) ==
  IF s = <<>> \/ Head(s) \notin C THEN 0 ELSE 1 + MatchRun(Tail(s), C)

\* re.sub(r"\t", " ", s): every tab becomes a space of its own
RECURSIVE re_sub_each_tab(_)
re_sub_each_tab(s) ==
  IF s = <<>> THEN <<>>
  ELSE <<IF Head(s) = TAB THEN SPACE ELSE Head(s)>> \o re_sub_each_tab(Tail(s))

\* re.sub(r"\t+", " ", s): each leftmost-longest match becomes one space
RECURSIVE re_sub_tabs(_)
re_sub_tabs(s) ==
  IF s = <<>> THEN <<>>
  ELSE LET n == MatchRun(s, {TAB})
       IN  IF n > 0 THEN <<SPACE>> \o re_sub_tabs(SubSeq(s, n + 1, Len(s)))
           ELSE <<Head(s)>> \o re_sub_tabs(Tail(s))

\* re.split(r"\s+", s): the pieces between the matches, empty pieces included
RECURSIVE re_split_from(_, _)
re_split_from(s, piece) ==
  IF s = <<>> THEN <<piece>>
  ELSE LET n == MatchRun(s, Whitespace)
       IN  IF n > 0 THEN <<piece>> \o re_split_from(SubSeq(s, n + 1, Len(s)), <<>>)
           ELSE re_split_from(Tail(s), Append(piece, Head(s)))

\* re.split(r"\s", s): every whitespace character is a separator of its own
RECURSIVE re_split_single_from(_, _)
re_split_single_from(s, piece) ==
  IF s = <<>> THEN <<piece>>
  ELSE IF Head(s) \in Whitespace
       THEN <<piece>> \o re_split_single_from(Tail(s), <<>>)
       ELSE re_split_single_from(Tail(s), Append(piece, Head(s)))

re_split_single(s) == re_split_single_from(s, <<>>)

re_split_ws(s) == re_split_from(s, <<>>)

\* list.count(x)
RECURSIVE list_count(_, _)
list_count(l, x) ==
  IF l = <<>> THEN 0
  ELSE (IF Head(l) = x THEN 1 ELSE 0) + list_count(Tail(l), x)

\* ------------------------------------------------- SimpleTextProcessor methods
preprocess(self_text) == re_sub_tabs(strip(self_text))

\* tokenize without the empty-string case
tokenize_no_empty_case(self_text) == re_split_ws(preprocess(self_text))

tokenize(self_text) ==
  LET preprocessed == preprocess(self_text)
  IN  IF preprocessed = <<>> THEN <<>> ELSE re_split_ws(preprocessed)

\* the elements of a list, as set(l) gives them
Elements(l) == {l[i] : i \in DOMAIN l}

\* count_words counting the distinct tokens
count_words_distinct(self_text) == Cardinality(Elements(tokenize(self_text)))

\* count_words splitting the preprocessed text itself
count_words_no_empty_case(self_text) == Len(re_split_ws(preprocess(self_text)))

\* count_words counting the separators between the tokens
count_words_separators(self_text) ==
  IF tokenize(self_text) = <<>> THEN 0 ELSE Len(tokenize(self_text)) - 1

count_words(self_text) == Len(tokenize(self_text))

\* word_frequency stripping the query word before counting
word_frequency_stripped(self_text, word) ==
  IF ~isinstance_str(word)
  THEN Raised("TypeError", "Expected str, got " \o word.type)
  ELSE Returned("int", list_count(tokenize(self_text), strip(word.val)))

\* word_frequency without the isinstance check: list.count(x) of a value that
\* is no element is 0
word_frequency_unchecked(self_text, word) ==
  Returned("int", IF isinstance_str(word)
                  THEN list_count(tokenize(self_text), word.val) ELSE 0)

word_frequency(self_text, word) ==
  IF ~isinstance_str(word)
  THEN Raised("TypeError", "Expected str, got " \o word.type)
  ELSE Returned("int", list_count(tokenize(self_text), word.val))

\* ------------------------------------------------------------------ demo.cli
\* texts given on the command line or held by the input file
CliTexts == {x \in StrUpTo(MaxCliLen) : \A i \in DOMAIN x : x[i] \in WordChars}

\* the --file argument when given: a pathlib.Path
CliPath == [type |-> "PosixPath", val |-> <<>>]

\* what is at that path: nothing, a directory, or a file with its contents
FsMissing == [kind |-> "missing", content |-> <<>>]
FsDirectory == [kind |-> "dir", content |-> <<>>]
FsFile(c) == [kind |-> "file", content |-> c]

CliFsStates == {FsMissing, FsDirectory} \cup {FsFile(c) : c \in CliTexts}

\* bool(x): None and the empty str are false, a Path is always true
truthy(x) ==
  CASE x.type = "NoneType" -> FALSE
    [] x.type = "str" -> x.val # <<>>
    [] OTHER -> TRUE

\* file.read_text(encoding="utf-8") inside get_text_input's try/except
read_text_or_not_found(fs) ==
  CASE fs.kind = "file" -> Returned("str", fs.content)
    [] fs.kind = "missing" -> Raised("FileNotFoundError", "File not found: input.txt")
    [] OTHER -> Raised("IsADirectoryError", "[Errno 21] Is a directory: 'input.txt'")

get_text_input(text_arg, file, fs) ==
  IF truthy(text_arg) /\ truthy(file)
  THEN Raised("ValueError", "Cannot specify both text and file")
  ELSE IF ~truthy(text_arg) /\ ~truthy(file)
  THEN Raised("ValueError", "Must specify either text or file")
  ELSE IF truthy(file)
  THEN read_text_or_not_found(fs)
  ELSE Returned("str", text_arg.val)

\* what a command leaves behind: its return value (or the exception that
\* escaped it), the values printed to stdout, and what get_text_input gave it
CmdOutcome(r, printed, got) == [ret |-> r, stdout |-> printed, got |-> got]

cmd_count(args, fs) ==
  LET got == get_text_input(args.text, args.file, fs)
  IN  IF got.kind = "raise" THEN CmdOutcome(Returned("int", 1), <<>>, got)
      ELSE CmdOutcome(Returned("int", 0), <<count_words(got.val)>>, got)

cmd_freq(args, fs) ==
  LET got == get_text_input(args.text, args.file, fs)
  IN  IF got.kind = "raise" THEN CmdOutcome(Returned("int", 1), <<>>, got)
      ELSE LET frequency == word_frequency(got.val, args.word)
           IN  IF frequency.kind = "raise" THEN CmdOutcome(Returned("int", 1), <<>>, got)
               ELSE CmdOutcome(Returned("int", 0), <<frequency.val>>, got)

\* main(argv) after parse_args accepted argv
main(args, fs) ==
  IF args.command = "none" THEN CmdOutcome(Returned("int", 1), <<>>, NoResult)
  ELSE IF args.command = "count" THEN cmd_count(args, fs)
  ELSE IF args.command = "freq" THEN cmd_freq(args, fs)
  ELSE CmdOutcome(Returned("int", 1), <<>>, NoResult)

\* the namespaces parse_args produces
CliArgs ==
  {a \in [command : {"none", "count", "freq"},
          text : {PyNone} \cup {PyStr(t) : t \in CliTexts},
          file : {PyNone, CliPath},
          word : {PyNone} \cup {PyStr(w) : w \in {<<>>, <<"a">>}}] :
     /\ (a.command = "freq") <=> (a.word # PyNone)
     /\ (a.command = "none") => (a.text = PyNone /\ a.file = PyNone)}

\* ----------------------------------------------- scripts/update_project_name
UNDERSCORE == "_"
HYPHEN == "-"
DIGIT == "1"

\* the characters of the names and of the file contents
OldNameChars == {"a", UNDERSCORE}
NewNameChars == {"a", UNDERSCORE, DIGIT, NEWLINE}
ContentChars == {"a", UNDERSCORE, HYPHEN}

RECURSIVE StringsOver(_, _)
StringsOver(C, n) ==
  IF n = 0 THEN {<<>>}
  ELSE LET S == StringsOver(C, n - 1)
       IN  S \cup {Append(x, c) : x \in {y \in S : Len(y) = n - 1}, c \in C}

OldNames == StringsOver(OldNameChars, MaxNameLen) \ {<<>>}
NewNames == StringsOver(NewNameChars, MaxNameLen)
Contents == StringsOver(ContentChars, MaxContentLen)

\* sub occurs in s at index i
occurs_at(s, i, sub) ==
  /\ i + Len(sub) - 1 <= Len(s)
  /\ SubSeq(s, i, i + Len(sub) - 1) = sub

\* sub in s
str_contains(s, sub) == \E i \in 1..(Len(s) + 1) : occurs_at(s, i, sub)

\* s.count(sub): the non-overlapping occurrences, left to right
RECURSIVE str_count_from(_, _, _)
str_count_from(s, sub, i) ==
  IF i > Len(s) THEN 0
  ELSE IF occurs_at(s, i, sub) THEN 1 + str_count_from(s, sub, i + Len(sub))
  ELSE str_count_from(s, sub, i + 1)

str_count(s, sub) == IF sub = <<>> THEN Len(s) + 1 ELSE str_count_from(s, sub, 1)

\* s.replace(old, new): every non-overlapping occurrence, left to right
RECURSIVE str_replace_from(_, _, _, _)
str_replace_from(s, old, new, i) ==
  IF i > Len(s) THEN <<>>
  ELSE IF occurs_at(s, i, old) THEN new \o str_replace_from(s, old, new, i + Len(old))
  ELSE <<s[i]>> \o str_replace_from(s, old, new, i + 1)

RECURSIVE str_interleave(_, _)
str_interleave(s, new) ==
  IF s = <<>> THEN new ELSE new \o <<Head(s)>> \o str_interleave(Tail(s), new)

str_replace(s, old, new) ==
  IF old = <<>> THEN str_interleave(s, new) ELSE str_replace_from(s, old, new, 1)

\* name.replace("_", "-")
hyphenated(name) == [i \in DOMAIN name |-> IF name[i] = UNDERSCORE THEN HYPHEN ELSE name[i]]

DQUOTE == <<"\"">>
SQUOTE == <<"'">>
\* the markdown backtick, written by name
BACKTICK == <<"backtick">>
FROM == <<"f", "r", "o", "m", " ">>
IMPORT == <<"i", "m", "p", "o", "r", "t", " ">>

\* get_replacements returning only the plain pair of names
get_replacements_names_only(old_name, new_name) == << <<old_name, new_name>> >>

get_replacements(old_name, new_name) ==
  LET old_hyphen == hyphenated(old_name)
      new_hyphen == hyphenated(new_name)
  IN  << <<old_name, new_name>>,
         <<old_hyphen, new_hyphen>>,
         <<DQUOTE \o old_name \o DQUOTE, DQUOTE \o new_name \o DQUOTE>>,
         <<SQUOTE \o old_name \o SQUOTE, SQUOTE \o new_name \o SQUOTE>>,
         <<DQUOTE \o old_hyphen \o DQUOTE, DQUOTE \o new_hyphen \o DQUOTE>>,
         <<SQUOTE \o old_hyphen \o SQUOTE, SQUOTE \o new_hyphen \o SQUOTE>>,
         <<FROM \o old_name, FROM \o new_name>>,
         <<IMPORT \o old_name, IMPORT \o new_name>>,
         <<BACKTICK \o old_name \o BACKTICK, BACKTICK \o new_name \o BACKTICK>>,
         <<BACKTICK \o old_hyphen \o BACKTICK, BACKTICK \o new_hyphen \o BACKTICK>> >>

\* the loop of update_file_contents over the replacement pairs
RECURSIVE apply_replacements(_, _, _)
apply_replacements(content, total_replacements, replacements) ==
  IF replacements = <<>>
  THEN [content |-> content, total |-> total_replacements]
  ELSE LET old_str == Head(replacements)[1]
           new_str == Head(replacements)[2]
       IN  IF str_contains(content, old_str)
           THEN apply_replacements(str_replace(content, old_str, new_str),
                                   total_replacements + str_count(content, old_str),
                                   Tail(replacements))
           ELSE apply_replacements(content, total_replacements, Tail(replacements))

\* a target file: missing, or a file with its content that can or cannot be written
RnMissing == [kind |-> "missing", content |-> <<>>, writable |-> FALSE]
RnFile(c, w) == [kind |-> "file", content |-> c, writable |-> w]
RnFiles == {RnMissing} \cup {RnFile(c, w) : c \in Contents, w \in BOOLEAN}

\* what the calls did to the file system
NoIo == [read |-> FALSE, wrote |-> FALSE, renamed |-> FALSE]

\* update_file_contents(path, replacements, dry_run): the file afterwards, the
\* replacements_made of the returned stats, and the reads and writes done
update_file_contents(file, replacements, dry_run) ==
  IF file.kind # "file"
  THEN [file |-> file, ret |-> 0, read |-> TRUE, wrote |-> FALSE]
  ELSE LET r == apply_replacements(file.content, 0, replacements)
       IN  IF r.total > 0 /\ ~dry_run
           THEN IF file.writable
                THEN [file |-> RnFile(r.content, TRUE), ret |-> r.total,
                      read |-> TRUE, wrote |-> TRUE]
                ELSE [file |-> file, ret |-> 0, read |-> TRUE, wrote |-> FALSE]
           ELSE [file |-> file, ret |-> r.total, read |-> TRUE, wrote |-> FALSE]

\* the directory src/<old_name> and the place src/<new_name> it is renamed to
RnDirs == [src : {"missing", "dir"}, target : {"absent", "nonempty"}]

\* rename_directory(path, old_name, new_name, dry_run), path.name given
rename_directory(dirs, path_name, old_name, new_name, dry_run) ==
  IF dirs.src # "dir" THEN [dirs |-> dirs, ret |-> FALSE, renamed |-> FALSE]
  ELSE IF path_name = old_name
  THEN IF dry_run THEN [dirs |-> dirs, ret |-> TRUE, renamed |-> FALSE]
       ELSE IF dirs.target = "absent"
       THEN [dirs |-> [src |-> "missing", target |-> "renamed"], ret |-> TRUE,
             renamed |-> TRUE]
       ELSE [dirs |-> dirs, ret |-> FALSE, renamed |-> FALSE]
  ELSE [dirs |-> dirs, ret |-> FALSE, renamed |-> FALSE]

IdentStart == Letters \cup {UNDERSCORE}
IdentPart == IdentStart \cup {DIGIT}

\* [a-zA-Z_][a-zA-Z0-9_]* over the whole of s
full_identifier(s) ==
  /\ s # <<>>
  /\ s[1] \in IdentStart
  /\ \A i \in 2..Len(s) : s[i] \in IdentPart

\* re.match(r"^[a-zA-Z_][a-zA-Z0-9_]*$", s): $ matches at the end of s and
\* also just before a newline that ends s
re_match_identifier(s) ==
  \/ full_identifier(s)
  \/ (s # <<>> /\ s[Len(s)] = NEWLINE /\ full_identifier(SubSeq(s, 1, Len(s) - 1)))

\* find_target_files: the candidates that exist and are files
find_target_files(file) == IF file.kind = "file" THEN <<file>> ELSE <<>>

\* main() of the script: exit status, file system afterwards, reads and writes done
rename_main(old_name, new_name, dry_run, file, dirs) ==
  IF ~re_match_identifier(new_name)
  THEN [exit |-> 1, file |-> file, dirs |-> dirs, io |-> NoIo]
  ELSE LET replacements == get_replacements(old_name, new_name)
           target_files == find_target_files(file)
       IN  IF target_files = <<>>
           THEN [exit |-> 0, file |-> file, dirs |-> dirs, io |-> NoIo]
           ELSE LET stats == update_file_contents(file, replacements, dry_run)
                    rd == rename_directory(dirs, old_name, old_name, new_name, dry_run)
                IN  [exit |-> 0, file |-> stats.file, dirs |-> rd.dirs,
                     io |-> [read |-> stats.read, wrote |-> stats.wrote,
                             renamed |-> rd.renamed]]

\* -------------------------------------------------------------------- state
VARIABLES
  text,        \* self.text of the processor instance
  ctor_text,   \* the text the instance was constructed from
  from_pre,    \* the instance was constructed from a preprocess() result
  failed,      \* a word_frequency call on this instance has raised
  op,          \* the last call made on the instance
  arg,         \* its argument
  ret,         \* what it returned or raised
  cli,         \* one run of the command line: its arguments, the input file, its outcome
  rn           \* one run of the rename script: its arguments, the files, its outcome

vars == <<text, ctor_text, from_pre, failed, op, arg, ret, cli, rn>>

NoArg == [type |-> "none", val |-> <<>>]

\* no command line run
CliIdle ==
  [args |-> [command |-> "none", text |-> PyNone, file |-> PyNone, word |-> PyNone],
   fs |-> FsMissing, pc |-> "idle", got |-> NoResult, ret |-> NoResult, stdout |-> <<>>]

\* no rename script run
RnIdle ==
  [old |-> <<>>, new |-> <<>>, dry |-> FALSE, file |-> RnMissing,
   dirs |-> [src |-> "missing", target |-> "absent"], path_name |-> <<>>,
   pc |-> "idle", ret |-> NoResult, io |-> NoIo,
   init |-> [file |-> RnMissing, dirs |-> [src |-> "missing", target |-> "absent"]]]

Init ==
  /\ text \in Texts
  /\ ctor_text = text
  /\ from_pre = FALSE
  /\ failed = FALSE
  /\ op = "__init__"
  /\ arg = NoArg
  /\ ret = NoResult
  /\ cli = CliIdle
  /\ rn = RnIdle

\* SimpleTextProcessor(first_preprocess): a new instance from a preprocess result
Construct ==
  /\ op = "preprocess"
  /\ text' = ret.val
  /\ ctor_text' = ret.val
  /\ from_pre' = TRUE
  /\ failed' = FALSE
  /\ op' = "__init__"
  /\ arg' = NoArg
  /\ ret' = NoResult
  /\ UNCHANGED <<cli, rn>>

\* a preprocess that stores its result in self.text
Preprocess_in_place ==
  /\ op' = "preprocess"
  /\ arg' = NoArg
  /\ ret' = Returned("str", preprocess(text))
  /\ text' = preprocess(text)
  /\ UNCHANGED <<ctor_text, from_pre, failed, cli, rn>>

Preprocess ==
  /\ op' = "preprocess"
  /\ arg' = NoArg
  /\ ret' = Returned("str", preprocess(text))
  /\ UNCHANGED <<text, ctor_text, from_pre, failed, cli, rn>>

Tokenize ==
  /\ op' = "tokenize"
  /\ arg' = NoArg
  /\ ret' = Returned("list", tokenize(text))
  /\ UNCHANGED <<text, ctor_text, from_pre, failed, cli, rn>>

CountWords ==
  /\ op' = "count_words"
  /\ arg' = NoArg
  /\ ret' = Returned("int", count_words(text))
  /\ UNCHANGED <<text, ctor_text, from_pre, failed, cli, rn>>

WordFrequency ==
  \E word \in Words :
    /\ op' = "word_frequency"
    /\ arg' = word
    /\ ret' = word_frequency(text, word)
    /\ failed' = (failed \/ ret'.kind = "raise")
    /\ UNCHANGED <<text, ctor_text, from_pre, cli, rn>>

Next ==
  \/ Construct
  \/ Preprocess
  \/ Tokenize
  \/ CountWords
  \/ WordFrequency

Spec == Init /\ [][Next]_vars

\* ---------------------------------------------------- the command line runs
\* no processor under observation
ProcessorIdle ==
  /\ text = <<>>
  /\ ctor_text = <<>>
  /\ from_pre = FALSE
  /\ failed = FALSE
  /\ op = "__init__"
  /\ arg = NoArg
  /\ ret = NoResult

InitCli ==
  /\ ProcessorIdle
  /\ rn = RnIdle
  /\ cli \in {[CliIdle EXCEPT !.args = a, !.fs = f, !.pc = "start"] :
                a \in CliArgs, f \in CliFsStates}

\* a call of get_text_input(args.text, args.file)
GetTextInput ==
  /\ cli.pc = "start"
  /\ cli' = [cli EXCEPT !.pc = "called",
                         !.got = get_text_input(cli.args.text, cli.args.file, cli.fs)]
  /\ UNCHANGED <<text, ctor_text, from_pre, failed, op, arg, ret, rn>>

\* a run of main(argv)
Main ==
  /\ cli.pc = "start"
  /\ LET m == main(cli.args, cli.fs)
     IN  cli' = [cli EXCEPT !.pc = "exited", !.got = m.got, !.ret = m.ret,
                            !.stdout = m.stdout]
  /\ UNCHANGED <<text, ctor_text, from_pre, failed, op, arg, ret, rn>>

NextCli ==
  \/ GetTextInput
  \/ Main

SpecCli == InitCli /\ [][NextCli]_vars

\* ---------------------------------------------------- the rename script runs
InitRename ==
  /\ ProcessorIdle
  /\ cli = CliIdle
  /\ rn \in {[RnIdle EXCEPT !.old = o, !.new = n, !.dry = d, !.file = f, !.dirs = ds,
                             !.pc = "start", !.init = [file |-> f, dirs |-> ds]] :
               o \in OldNames, n \in NewNames, d \in BOOLEAN, f \in RnFiles, ds \in RnDirs}

\* a call of update_file_contents(path, get_replacements(old, new), dry_run)
UpdateFileContents ==
  /\ rn.pc = "start"
  /\ LET u == update_file_contents(rn.file, get_replacements(rn.old, rn.new), rn.dry)
     IN  rn' = [rn EXCEPT !.pc = "updated", !.file = u.file,
                          !.ret = Returned("int", u.ret),
                          !.io = [read |-> u.read, wrote |-> u.wrote, renamed |-> FALSE]]
  /\ UNCHANGED <<text, ctor_text, from_pre, failed, op, arg, ret, cli>>

\* a call of rename_directory(path, old, new, dry_run) on src/<old> or on src itself
RenameDirectory ==
  \E path_name \in {rn.old, <<"s", "r", "c">>} :
    /\ rn.pc = "start"
    /\ LET r == rename_directory(rn.dirs, path_name, rn.old, rn.new, rn.dry)
       IN  rn' = [rn EXCEPT !.pc = "renamed", !.dirs = r.dirs, !.path_name = path_name,
                            !.ret = Returned("bool", r.ret),
                            !.io = [read |-> FALSE, wrote |-> FALSE, renamed |-> r.renamed]]
    /\ UNCHANGED <<text, ctor_text, from_pre, failed, op, arg, ret, cli>>

\* a run of the script's main()
RenameMain ==
  /\ rn.pc = "start"
  /\ LET m == rename_main(rn.old, rn.new, rn.dry, rn.file, rn.dirs)
     IN  rn' = [rn EXCEPT !.pc = "exited", !.file = m.file, !.dirs = m.dirs,
                          !.ret = Returned("int", m.exit), !.io = m.io]
  /\ UNCHANGED <<text, ctor_text, from_pre, failed, op, arg, ret, cli>>

NextRename ==
  \/ UpdateFileContents
  \/ RenameDirectory
  \/ RenameMain

SpecRename == InitRename /\ [][NextRename]_vars

TypeOK ==
  /\ text \in Texts
  /\ ctor_text \in Texts
  /\ from_pre \in BOOLEAN
  /\ failed \in BOOLEAN
  /\ op \in {"__init__", "preprocess", "tokenize", "count_words", "word_frequency"}
  /\ arg \in Words \cup {NoArg}
  /\ ret.kind \in {"none", "str", "list", "int", "raise"}

\* ------------------------------------------------------- reference notions
\* t has a character that is not whitespace
NonBlank(t) == \E i \in DOMAIN t : t[i] \notin Whitespace

\* t without its leading and trailing whitespace: from its first to its last
\* non-whitespace character
Trimmed(t) ==
  IF ~NonBlank(t) THEN <<>>
  ELSE LET NonWs == {i \in DOMAIN t : t[i] \notin Whitespace}
           first == CHOOSE i \in NonWs : \A j \in NonWs : i <= j
           last == CHOOSE i \in NonWs : \A j \in NonWs : j <= i
       IN  SubSeq(t, first, last)

\* r is s with every maximal run of tabs replaced by one space: r holds, in
\* order, the characters of s that are no tab and one space for the first tab
\* of each run
TabRunsCollapsed(s, r) ==
  LET Keep == {k \in DOMAIN s : s[k] # TAB \/ k = 1 \/ s[k - 1] # TAB}
  IN  /\ Len(r) = Cardinality(Keep)
      /\ \A k \in Keep :
           r[Cardinality({j \in Keep : j <= k})] = (IF s[k] = TAB THEN SPACE ELSE s[k])

\* the maximal non-whitespace substrings of p, as pairs of first and last index
TokenRuns(p) ==
  {r \in (DOMAIN p) \X (DOMAIN p) :
     /\ r[1] <= r[2]
     /\ \A k \in r[1]..r[2] : p[k] \notin Whitespace
     /\ (r[1] = 1 \/ p[r[1] - 1] \in Whitespace)
     /\ (r[2] = Len(p) \/ p[r[2] + 1] \in Whitespace)}

\* toks holds exactly the maximal non-whitespace substrings of p, left to right
IsTokenSequence(p, toks) ==
  /\ Len(toks) = Cardinality(TokenRuns(p))
  /\ \A r \in TokenRuns(p) :
       toks[1 + Cardinality({q \in TokenRuns(p) : q[1] < r[1]})] = SubSeq(p, r[1], r[2])

\* the number of elements of l equal to w
Occurrences(l, w) == Cardinality({i \in DOMAIN l : l[i] = w})

\* the sum of f(x) over the elements x of S
RECURSIVE SumFrequencies(_, _)
SumFrequencies(S, t) ==
  IF S = {} THEN 0
  ELSE LET x == CHOOSE y \in S : TRUE
       IN  word_frequency(t, PyStr(x)).val + SumFrequencies(S \ {x}, t)

\* what a call returns as the first call on a fresh instance constructed from t
FirstCall(t, o, a) ==
  CASE o = "preprocess" -> Returned("str", preprocess(t))
    [] o = "tokenize" -> Returned("list", tokenize(t))
    [] o = "count_words" -> Returned("int", count_words(t))
    [] o = "word_frequency" -> word_frequency(t, a)
    [] OTHER -> NoResult

\* x was given, whatever its value: it is not None
Provided(x) == x.type # "NoneType"

\* what main prints when its command succeeds on text t
ExpectedOutput(args, t) ==
  IF args.command = "count" THEN count_words(t)
  ELSE Occurrences(tokenize(t), args.word.val)

\* name.replace("_", "-") read off position by position
Hyphenated(name) == [i \in DOMAIN name |-> IF name[i] = "_" THEN "-" ELSE name[i]]

\* s has sub at index i
HasAt(s, i, sub) ==
  /\ sub # <<>>
  /\ i + Len(sub) - 1 <= Len(s)
  /\ \A k \in 1..Len(sub) : s[i + k - 1] = sub[k]

\* s from index i on, read once from left to right, with each occurrence of
\* old_name replaced by new_name and each occurrence of the hyphenated old name
\* by the hyphenated new name; nothing that was written is read again
RECURSIVE RenamedOnceFrom(_, _, _, _)
RenamedOnceFrom(s, i, old_name, new_name) ==
  IF i > Len(s) THEN <<>>
  ELSE IF HasAt(s, i, old_name)
  THEN new_name \o RenamedOnceFrom(s, i + Len(old_name), old_name, new_name)
  ELSE IF HasAt(s, i, Hyphenated(old_name))
  THEN Hyphenated(new_name) \o RenamedOnceFrom(s, i + Len(old_name), old_name, new_name)
  ELSE <<s[i]>> \o RenamedOnceFrom(s, i + 1, old_name, new_name)

\* the number of occurrences that reading replaces
RECURSIVE OccurrencesFrom(_, _, _)
OccurrencesFrom(s, i, old_name) ==
  IF i > Len(s) THEN 0
  ELSE IF HasAt(s, i, old_name) \/ HasAt(s, i, Hyphenated(old_name))
  THEN 1 + OccurrencesFrom(s, i + Len(old_name), old_name)
  ELSE OccurrencesFrom(s, i + 1, old_name)

\* a letter or underscore followed only by letters, digits and underscores
IsPythonIdentifier(name) ==
  /\ Len(name) >= 1
  /\ name[1] \in {"a", "A", "_"}
  /\ \A i \in 2..Len(name) : name[i] \in {"a", "A", "_", "1"}

\* ------------------------------------------------------------------- claims

\* C1: tokenize() returns exactly the maximal non-whitespace substrings of
\* normalize(t), left to right: no token is empty, none holds a whitespace
\* character, and an empty normalize(t) gives the empty sequence.
C1_TokenizeMaximalSubstrings ==
  op = "tokenize" =>
    /\ ret.kind = "list"
    /\ IsTokenSequence(preprocess(text), ret.val)
    /\ \A k \in DOMAIN ret.val :
         ret.val[k] # <<>> /\ \A i \in DOMAIN ret.val[k] : ret.val[k][i] \notin Whitespace
    /\ (preprocess(text) = <<>> => ret.val = <<>>)

C1_Witness ==
  /\ op = "tokenize"
  /\ Len(ret.val) = 2
  /\ Len(text) > Len(ret.val[1]) + Len(ret.val[2]) + 1

\* C2: normalize() returns t with its leading and trailing whitespace removed
\* and then every maximal run of tabs replaced by exactly one space, every
\* other character kept unchanged and in order.
C2_PreprocessTrimsAndCollapsesTabs ==
  op = "preprocess" =>
    /\ ret.kind = "str"
    /\ TabRunsCollapsed(Trimmed(text), ret.val)

C2_Witness ==
  /\ op = "preprocess"
  /\ text = <<"a", TAB, TAB, "A">>
  /\ ret.val = <<"a", SPACE, "A">>

\* C3: wordFrequency(w) returns the number of elements of tokenize() exactly
\* equal to w, the query word taken as given (case kept, not trimmed).
C3_WordFrequencyCountsExactMatches ==
  (op = "word_frequency" /\ arg.type = "str") =>
    ret = Returned("int", Occurrences(tokenize(text), arg.val))

C3_Witness ==
  /\ op = "word_frequency"
  /\ arg = PyStr(<<"a">>)
  /\ ret.val = 1
  /\ <<"A">> \in Elements(tokenize(text))

\* C4: countWords() equals the sum of wordFrequency(tok) over the distinct
\* tokens of tokenize(), and is 0 when tokenize() is empty.
C4_CountIsSumOfFrequencies ==
  op = "count_words" =>
    /\ ret.val = SumFrequencies(Elements(tokenize(text)), text)
    /\ (tokenize(text) = <<>> => ret.val = 0)

C4_Witness ==
  /\ op = "count_words"
  /\ ret.val = 2
  /\ Cardinality(Elements(tokenize(text))) = 1

\* C5: countWords() returns the length of the sequence tokenize() returns on
\* the same instance, an integer >= 0.
C5_CountIsTokenizeLength ==
  op = "count_words" =>
    /\ ret.kind = "int"
    /\ ret.val = Len(tokenize(text))
    /\ ret.val \in Nat

C5_Witness ==
  /\ op = "count_words"
  /\ text # <<>>
  /\ ~NonBlank(text)
  /\ ret.val = 0

\* C6: normalization is idempotent: a processor constructed from normalize(t)
\* returns that same text from normalize().
C6_PreprocessIdempotent ==
  (from_pre /\ op = "preprocess") => ret = Returned("str", ctor_text)

C6_Witness ==
  /\ from_pre
  /\ op = "preprocess"
  /\ \E i \in DOMAIN ctor_text : ctor_text[i] \in Whitespace
  /\ ret.val = ctor_text

\* C7: the only failure is wordFrequency(word) raising TypeError, which it does
\* if and only if word is not a str, with a message naming the received type;
\* normalize, tokenize, countWords and wordFrequency of a str return normally.
C7_OnlyWordFrequencyRaises ==
  /\ (op = "word_frequency" => (ret.kind = "raise" <=> arg.type # "str"))
  /\ (ret.kind = "raise" =>
        /\ op = "word_frequency"
        /\ ret.exc.type = "TypeError"
        /\ (arg = PyNone => ret.exc.msg = "Expected str, got NoneType")
        /\ (arg = PyInt => ret.exc.msg = "Expected str, got int"))
  /\ (op = "preprocess" => ret.kind = "str")
  /\ (op = "tokenize" => ret.kind = "list")
  /\ (op = "count_words" => ret.kind = "int")
  /\ ((op = "word_frequency" /\ arg.type = "str") => ret.kind = "int")

C7_Witness ==
  /\ op = "word_frequency"
  /\ arg = PyNone
  /\ ret.kind = "raise"
  /\ ret.exc.msg = "Expected str, got NoneType"

\* C8: after any sequence of calls, a failing wordFrequency included, the
\* stored text is the one the instance was constructed from and the last call
\* returned what it returns as the first call on a fresh instance.
C8_CallsLeaveInstanceUnchanged ==
  /\ text = ctor_text
  /\ ret = FirstCall(ctor_text, op, arg)

C8_Witness ==
  /\ failed
  /\ op = "tokenize"
  /\ Len(ret.val) = 2
  /\ text = ctor_text

\* C9: wordFrequency("") returns 0: the empty string is never a token.
C9_EmptyWordFrequencyZero ==
  (op = "word_frequency" /\ arg = PyStr(<<>>)) => ret = Returned("int", 0)

C9_Witness ==
  /\ op = "word_frequency"
  /\ arg = PyStr(<<>>)
  /\ ret.val = 0
  /\ text # <<>>
  /\ ~NonBlank(text)

\* C10: for a text with at least one non-whitespace character, normalize() is
\* non-empty and countWords() is greater than 0.
C10_NonBlankHasPositiveCount ==
  NonBlank(text) =>
    /\ (op = "preprocess" => ret.val # <<>>)
    /\ (op = "count_words" => ret.val > 0)

C10_Witness ==
  /\ NonBlank(text)
  /\ Head(text) \in Whitespace
  /\ op = "count_words"
  /\ ret.val = 1

\* C11: get_text_input(text, file) raises ValueError when both or neither of
\* text and file are provided; given exactly one it returns that text
\* unchanged, or the contents of the file (FileNotFoundError when the file does
\* not exist), for every provided text, the empty string included.
C11_GetTextInputByPresence ==
  cli.pc = "called" =>
    /\ (Provided(cli.args.text) /\ Provided(cli.args.file)) =>
         (cli.got.kind = "raise" /\ cli.got.exc.type = "ValueError")
    /\ (~Provided(cli.args.text) /\ ~Provided(cli.args.file)) =>
         (cli.got.kind = "raise" /\ cli.got.exc.type = "ValueError")
    /\ (Provided(cli.args.text) /\ ~Provided(cli.args.file)) =>
         cli.got = Returned("str", cli.args.text.val)
    /\ (~Provided(cli.args.text) /\ Provided(cli.args.file) /\ cli.fs.kind = "file") =>
         cli.got = Returned("str", cli.fs.content)
    /\ (~Provided(cli.args.text) /\ Provided(cli.args.file) /\ cli.fs.kind = "missing") =>
         (cli.got.kind = "raise" /\ cli.got.exc.type = "FileNotFoundError")

\* C12: main(argv) returns 0 if and only if the selected command obtained its
\* input text and printed its result (count_words for count, word_frequency of
\* the word for freq); in every other case (no subcommand, no input, both text
\* and file, nonexistent file, an exception inside the command) it returns 1,
\* and no exception escapes the command.
C12_MainExitCode ==
  cli.pc = "exited" =>
    /\ cli.ret.kind = "int"
    /\ cli.ret.val \in {0, 1}
    /\ (cli.ret.val = 0 <=>
          /\ cli.args.command \in {"count", "freq"}
          /\ cli.got.kind = "str"
          /\ cli.got.val \in {cli.args.text.val, cli.fs.content}
          /\ cli.stdout = <<ExpectedOutput(cli.args, cli.got.val)>>)
    /\ (cli.ret.val = 1 => cli.stdout = <<>>)
    /\ (cli.args.command = "none" => cli.ret.val = 1)
    /\ (cli.got.kind = "raise" => cli.ret.val = 1)
    /\ ((~Provided(cli.args.text) /\ ~Provided(cli.args.file)) => cli.ret.val = 1)
    /\ ((Provided(cli.args.text) /\ Provided(cli.args.file)) => cli.ret.val = 1)
    /\ ((~Provided(cli.args.text) /\ Provided(cli.args.file) /\ cli.fs.kind # "file") =>
          cli.ret.val = 1)

\* C13: a dry run modifies nothing: update_file_contents and rename_directory
\* with dry_run=True neither write the file nor rename the directory, and each
\* returns what the run without dry_run returns from the same initial state.
C13_DryRunSameAsRealRun ==
  rn.dry =>
    /\ (rn.pc = "updated" =>
          /\ rn.file = rn.init.file
          /\ ~rn.io.wrote
          /\ rn.ret.val =
               update_file_contents(rn.init.file, get_replacements(rn.old, rn.new), FALSE).ret)
    /\ (rn.pc = "renamed" =>
          /\ rn.dirs = rn.init.dirs
          /\ ~rn.io.renamed
          /\ rn.ret.val =
               rename_directory(rn.init.dirs, rn.path_name, rn.old, rn.new, FALSE).ret)

\* C14: update_file_contents with get_replacements(old_name, new_name) rewrites
\* each occurrence exactly once: the content becomes the original with every
\* old name replaced by the new name and every hyphenated old name by the
\* hyphenated new name, nothing written by an earlier pair is rewritten by a
\* later one, and replacements_made is the number of those occurrences.
C14_EachOccurrenceRewrittenOnce ==
  (rn.pc = "updated" /\ rn.init.file.kind = "file" /\ (rn.dry \/ rn.init.file.writable)) =>
    /\ rn.ret.val = OccurrencesFrom(rn.init.file.content, 1, rn.old)
    /\ (~rn.dry =>
          rn.file.content = RenamedOnceFrom(rn.init.file.content, 1, rn.old, rn.new))

\* C15: when --new-name is not a valid Python identifier, main exits with
\* status 1 before any target file is read or written and before any directory
\* is renamed.
C15_InvalidNameExitsBeforeAnyChange ==
  (rn.pc = "exited" /\ ~IsPythonIdentifier(rn.new)) =>
    /\ rn.ret.val = 1
    /\ rn.io = NoIo
    /\ rn.file = rn.init.file
    /\ rn.dirs = rn.init.dirs

====
